---- MODULE Spec2Model ----
(***************************************************************************)
(* Model of the try-on backend: the generation job registry and pipeline  *)
(* of src/server.js (POST /api/generate, GET /api/status/:requestId,      *)
(* processVellaTryOn), the garment classifier of the Replicate service    *)
(* module (src/unnamed/part_000) and the two copies of the output         *)
(* normalizer processReplicateOutput (src/server.js and part_000).        *)
(***************************************************************************)
EXTENDS Integers, Sequences, FiniteSets, TLC

VARIABLES
    now,              \* Date.now(), in milliseconds since the process started
    config,           \* the process environment at startup: token, client construction
    activeAIService,  \* "Replicate" or "Mock", fixed at startup
    heap,             \* the job objects ever created: Seq of job records
    generationJobs,   \* the Map requestId -> job object (index into heap, 0 = no entry)
    task,             \* per job object: the state of its processVellaTryOn call
    handler,          \* the request handler running on the event loop, if any
    response,         \* the HTTP response written by the running handler, if any
    files,            \* the files under outputs/: set of [ref, bytes]
    garments,         \* classifier: the garment list given to virtualTryOn
    category,         \* classifier: the value it returned ("pending" before the call)
    input,            \* classifier: the input object virtualTryOn builds for the call
    rawOutput,        \* normalizer: the value replicate.run resolved to
    variant,          \* normalizer: which copy of processReplicateOutput runs
    normalized        \* normalizer: its outcome ("pending" before the call)

vars == <<now, config, activeAIService, heap, generationJobs, task, handler, response,
          files, garments, category, input, rawOutput, variant, normalized>>

jobVars == <<now, config, activeAIService, heap, generationJobs, task, handler,
             response, files>>
classifierVars == <<garments, category, input>>
normalizerVars == <<rawOutput, variant, normalized>>

-----------------------------------------------------------------------------
(* Bounds *)

MaxGarments == 3     \* longest garment list given to the classifier
MaxItems == 2        \* longest raw output list given to the normalizer
MaxJobs == 2         \* submits accepted in one run of Spec
MaxAccepted == 1     \* submits accepted in one run of SpecHandlers
MaxOutputs == 1      \* largest output count a client asks for
MaxRaw == 2          \* longest raw output list the remote backend resolves to

-----------------------------------------------------------------------------
(* Garment classifier: src/unnamed/part_000, determineGarmentType *)

\* the four types the service knows, and one it does not
GarmentTypes == {"top", "bottom", "dress", "outer"}
SuppliedTypes == GarmentTypes \cup {"hat"}

Categories == {"dress", "top_bottom", "top_outer", "top", "bottom", "outer"}

\* garments.some(g => g.type === t)
some(gs, t) == \E i \in DOMAIN gs : gs[i].type = t

determineGarmentType_swapped(gs) ==
    LET hasTop == some(gs, "top")
        hasBottom == some(gs, "bottom")
        hasDress == some(gs, "dress")
        hasOuter == some(gs, "outer")
    IN  IF hasTop /\ hasBottom THEN "top_bottom"
        ELSE IF hasDress THEN "dress"
        ELSE IF hasTop /\ hasOuter THEN "top_outer"
        ELSE IF hasTop THEN "top"
        ELSE IF hasBottom THEN "bottom"
        ELSE IF hasOuter THEN "outer"
        ELSE "top"

determineGarmentType(gs) ==
    LET hasTop == some(gs, "top")
        hasBottom == some(gs, "bottom")
        hasDress == some(gs, "dress")
        hasOuter == some(gs, "outer")
    IN  IF hasDress THEN "dress"
        ELSE IF hasTop /\ hasBottom THEN "top_bottom"
        ELSE IF hasTop /\ hasOuter THEN "top_outer"
        ELSE IF hasTop THEN "top"
        ELSE IF hasBottom THEN "bottom"
        ELSE IF hasOuter THEN "outer"
        ELSE "top"

GarmentLists ==
    UNION {[1..n -> [type : SuppliedTypes]] : n \in 0..MaxGarments}

\* getGarmentParameter: garmentParams[garmentType] || 'top_image'
getGarmentParameter(garmentType) ==
    IF garmentType = "top" THEN "top_image"
    ELSE IF garmentType = "bottom" THEN "bottom_image"
    ELSE IF garmentType = "dress" THEN "dress_image"
    ELSE IF garmentType = "outer" THEN "outer_image"
    ELSE "top_image"

\* input[garmentParam] = garmentImageBuffer: the input object as the set of its
\* garment properties; the image of the i-th garment is named by i
SetParam(inp, param, image) ==
    {e \in inp : e.param # param} \cup {[param |-> param, image |-> image]}

\* `for (const garment of garments)` of virtualTryOn, from the i-th garment on
RECURSIVE AttachGarments(_, _, _)
AttachGarments(gs, i, inp) ==
    IF i > Len(gs) THEN inp
    ELSE AttachGarments(gs, i + 1, SetParam(inp, getGarmentParameter(gs[i].type), i))

ClassifierIdle == /\ garments = <<>>
                  /\ category = "pending"
                  /\ input = {}

\* virtualTryOn up to the remote call: the category and the input object
Classify ==
    /\ category = "pending"
    /\ category' = determineGarmentType(garments)
    /\ input' = AttachGarments(garments, 1, {})
    /\ UNCHANGED <<garments, jobVars, normalizerVars>>

-----------------------------------------------------------------------------
(* Output normalizer: processReplicateOutput, in src/server.js and in
   src/unnamed/part_000 *)

NoValue == "none"

\* what a raw item carries: the bytes of a stream or the text of a URL
Payloads == {"a", "b"}

\* a Buffer of length 0: what a stream that ends without data is read to
EmptyBytes == "empty"

\* A raw output item, by the shape the code probes for:
\*   stream   - a Readable (it has pipe); fails: it emits 'error' before 'end';
\*              val: its bytes, EmptyBytes when it ends without a chunk
\*   string   - a URL string
\*   resolver - an object whose url is a function; fails: url() throws;
\*              asString: url() returns a string (else a URL object)
\*   static   - an object whose url is a non-empty string
\*   object   - any other object, e.g. {unknownField: 1}
\*   value    - any other value: null, undefined, a number
Item(shape, val, fails, asString) ==
    [shape |-> shape, val |-> val, fails |-> fails, asString |-> asString]

RawItemsOver(P) ==
       {Item("stream", v, FALSE, FALSE) : v \in P}
    \cup {Item("stream", NoValue, TRUE, FALSE)}
    \cup {Item("string", v, FALSE, TRUE) : v \in P}
    \cup {Item("resolver", v, FALSE, s) : v \in P, s \in BOOLEAN}
    \cup {Item("resolver", NoValue, TRUE, FALSE)}
    \cup {Item("static", v, FALSE, TRUE) : v \in P}
    \cup {Item("object", NoValue, FALSE, FALSE), Item("value", NoValue, FALSE, FALSE)}

\* a stream that ends without a chunk
EmptyStream == Item("stream", EmptyBytes, FALSE, FALSE)

\* what replicate.run may resolve to: a list of items, or one item alone
RawOutputsFrom(I, n) ==
       {[isArray |-> TRUE, items |-> s] : s \in UNION {[1..k -> I] : k \in 0..n}}
    \cup {[isArray |-> FALSE, items |-> <<x>>] : x \in I}

RawOutputsOver(P, n) == RawOutputsFrom(RawItemsOver(P), n)

RawOutputs == RawOutputsOver(Payloads, MaxItems)

\* the records pushed by processReplicateOutput
StreamRecord(buf, i) ==
    [imageBuffer |-> buf, imageUrl |-> NoValue, urlIsString |-> FALSE, index |-> i,
     type |-> "tryon_result", mimeType |-> "image/png", isStream |-> TRUE,
     isMock |-> FALSE]

UrlRecord(url, isString, i) ==
    [imageBuffer |-> NoValue, imageUrl |-> url, urlIsString |-> isString, index |-> i,
     type |-> "tryon_result", mimeType |-> "image/png", isStream |-> FALSE,
     isMock |-> FALSE]

createMockResults_empty == <<>>

createMockResults ==
    <<[imageBuffer |-> NoValue, imageUrl |-> "mock://tryon-result-1",
       urlIsString |-> TRUE, index |-> 0, type |-> "tryon_result",
       mimeType |-> "image/png", isStream |-> FALSE, isMock |-> TRUE]>>

\* a streamToBuffer that resolves on 'error' too, with what it has read
streamToBuffer_swallowing(item) == [rejected |-> FALSE, buffer |-> item.val]

\* streamToBuffer: resolves with the bytes on 'end', rejects on 'error'
streamToBuffer(item) ==
    IF item.fails THEN [rejected |-> TRUE, buffer |-> NoValue]
    ELSE [rejected |-> FALSE, buffer |-> item.val]

Returned(results) == [state |-> "returned", results |-> results, error |-> NoValue]
Raised(msg) == [state |-> "raised", results |-> <<>>, error |-> msg]
Pending == [state |-> "pending", results |-> <<>>, error |-> NoValue]

ProcessError == "Failed to process results: stream error"

\* an object branch that knows the resolver alone
ObjectRecords_resolverOnly(item, i, toStr) ==
    IF item.shape = "resolver"
    THEN IF item.fails THEN <<>>
         ELSE <<[imageBuffer |-> NoValue, imageUrl |-> item.val,
                 urlIsString |-> toStr \/ item.asString, index |-> i,
                 type |-> "tryon_result", mimeType |-> "image/png",
                 isStream |-> FALSE, isMock |-> FALSE]>>
    ELSE <<>>

\* the object branch shared by the list loop and the single-item case;
\* toStr: the copy in server.js calls resolvedUrl.toString()
ObjectRecords(item, i, toStr) ==
    IF item.shape = "resolver"
    THEN IF item.fails THEN <<>>
         ELSE <<UrlRecord(item.val, toStr \/ item.asString, i)>>
    ELSE IF item.shape = "static" THEN <<UrlRecord(item.val, TRUE, i)>>
    ELSE <<>>

\* the body of `for (let i = 0; i < output.length; i++)`, from 0-based index i on,
\* with the records pushed so far; the same in both copies
RECURSIVE ProcessArray(_, _, _, _)
ProcessArray(items, i, results, toStr) ==
    IF i >= Len(items) THEN Returned(results)
    ELSE LET item == items[i + 1] IN
         IF item.shape = "stream"
         THEN LET b == streamToBuffer(item) IN
              IF b.rejected THEN Raised(ProcessError)
              ELSE ProcessArray(items, i + 1,
                                Append(results, StreamRecord(b.buffer, i)), toStr)
         ELSE IF item.shape = "string"
         THEN ProcessArray(items, i + 1,
                           Append(results, UrlRecord(item.val, TRUE, i)), toStr)
         ELSE IF item.shape \in {"resolver", "static", "object"}
         THEN ProcessArray(items, i + 1, results \o ObjectRecords(item, i, toStr), toStr)
         ELSE ProcessArray(items, i + 1, results, toStr)

\* `if (results.length === 0) return this.createMockResults()`
MockIfEmpty(outcome) ==
    IF outcome.state = "returned" /\ Len(outcome.results) = 0
    THEN Returned(createMockResults)
    ELSE outcome

\* src/server.js
processReplicateOutput_server(output) ==
    IF output.isArray THEN MockIfEmpty(ProcessArray(output.items, 0, <<>>, TRUE))
    ELSE LET item == output.items[1] IN
         IF item.shape = "stream"
         THEN LET b == streamToBuffer(item) IN
              IF b.rejected THEN Raised(ProcessError)
              ELSE Returned(<<StreamRecord(b.buffer, 0)>>)
         ELSE IF item.shape = "string" THEN Returned(<<UrlRecord(item.val, TRUE, 0)>>)
         ELSE IF item.shape \in {"resolver", "static", "object"}
         THEN MockIfEmpty(Returned(ObjectRecords(item, 0, TRUE)))
         ELSE Returned(createMockResults)

\* src/unnamed/part_000: a single stream is an object without url
processReplicateOutput_service(output) ==
    IF output.isArray THEN MockIfEmpty(ProcessArray(output.items, 0, <<>>, FALSE))
    ELSE LET item == output.items[1] IN
         IF item.shape = "string" THEN Returned(<<UrlRecord(item.val, TRUE, 0)>>)
         ELSE IF item.shape \in {"resolver", "static", "object"}
         THEN MockIfEmpty(Returned(ObjectRecords(item, 0, FALSE)))
         ELSE MockIfEmpty(Returned(<<>>))

Variants == {"server", "service"}

processReplicateOutput(v, output) ==
    IF v = "server" THEN processReplicateOutput_server(output)
    ELSE processReplicateOutput_service(output)

NormalizerIdle == /\ rawOutput = [isArray |-> TRUE, items |-> <<>>]
                  /\ variant = "server"
                  /\ normalized = Pending

Normalize ==
    /\ normalized.state = "pending"
    /\ normalized' = processReplicateOutput(variant, rawOutput)
    /\ UNCHANGED <<rawOutput, variant, jobVars, classifierVars>>

-----------------------------------------------------------------------------
(* Job registry and pipeline: src/server.js *)

Users == {"u1", "u2"}

\* where an image of a request comes from:
\*   none    - no file uploaded and no default id given
\*   default - the id of an image under defaults/
\*   upload  - an uploaded file that validateImage accepts
\*   invalid - an uploaded file that validateImage rejects (too small, too large)
Sources == {"none", "default", "upload", "invalid"}

Modes == {"single", "multiple", "other"}

\* the outputCount field of the form: absent, text that is no number, or the
\* digits of an integer
ClientCount(kind, n) == [kind |-> kind, n |-> n]
OutputCounts == {ClientCount("number", n) : n \in 1..MaxOutputs}
ClientCounts ==
    OutputCounts \cup {ClientCount("missing", 0), ClientCount("text", 0),
                       ClientCount("number", 0), ClientCount("number", -1)}

\* `outputCount = 1` in the destructuring of req.body (line 790)
supplied(count) == IF count.kind = "missing" THEN ClientCount("number", 1) ELSE count

\* parseInt: the integer, or NaN
parseInt(count) ==
    IF count.kind = "number" THEN [nan |-> FALSE, n |-> count.n]
    ELSE [nan |-> TRUE, n |-> 0]

\* `parseInt(outputCount) || 1` (line 941): NaN and 0 are falsy, -1 is not. The
\* same expression at line 1061 and `options.numOutputs || 1` at line 626 give
\* back the integer they are handed.
numOutputsOf(count) ==
    LET parsed == parseInt(supplied(count)) IN
    IF parsed.nan \/ parsed.n = 0 THEN 1 ELSE parsed.n

\* A request to POST /api/generate: who sends it, the model image, the garment
\* mode (req.body.garmentType), the single or top garment (g1) with the type
\* parsedGarmentData names for it, and the bottom garment (g2).
AllRequests ==
    [userId : Users, model : Sources, mode : Modes, g1 : Sources,
     g1Type : SuppliedTypes, g2 : Sources, outputCount : ClientCounts]

\* the requests the job registry is run with: an uploaded model image and one
\* default garment of type top, each present, absent or invalid, under every
\* mode; the requests that differ only in what a rejected request never uses
\* (the user, the output count) are taken once
RequestsWith(counts) ==
    {req \in AllRequests :
        /\ req.model # "default"
        /\ req.g1 # "upload"
        /\ req.g1Type = "top"
        /\ req.g2 = "none"
        /\ req.outputCount \in counts
        /\ (req.model # "upload" \/ req.g1 # "default" \/ req.mode = "other")
               => (req.userId = "u1" /\ req.outputCount = ClientCount("number", 1))}

Requests == RequestsWith(OutputCounts)

\* the same requests with every output count a client can send
PipelineRequests == RequestsWith(ClientCounts)

\* every image source and every garment type a client can name, with the output
\* counts a client asks for
SubmitRequests == {req \in AllRequests : req.outputCount \in OutputCounts}

present(src) == src # "none"

\* getImagePath: the path of an image, by its directory
getImagePath(src) == IF src = "default" THEN "defaults" ELSE "uploads"

\* lines 813-904: the garment list the handler builds, or the 400 it answers
\* (a 400 is returned as a sequence holding the error)
Garment(type, src) == [type |-> type, imagePath |-> getImagePath(src), source |-> src]

\* a handler that pushes the bottom garment after a dress too
BuildGarments_keepsBottom(req) ==
    IF req.mode = "single"
    THEN IF ~present(req.g1)
         THEN [error |-> "Single garment image is required.", garments |-> <<>>]
         ELSE [error |-> NoValue, garments |-> <<Garment(req.g1Type, req.g1)>>]
    ELSE IF req.mode = "multiple"
    THEN IF ~present(req.g1) /\ ~present(req.g2)
         THEN [error |-> "At least one garment (top or bottom) is required.",
               garments |-> <<>>]
         ELSE LET top == IF present(req.g1) THEN <<Garment(req.g1Type, req.g1)>>
                         ELSE <<>>
                  bottom == IF present(req.g2)
                            THEN <<Garment("bottom", req.g2)>> ELSE <<>>
              IN  [error |-> NoValue, garments |-> top \o bottom]
    ELSE [error |-> "Invalid garment type. Must be \"single\" or \"multiple\".",
          garments |-> <<>>]

BuildGarments(req) ==
    IF req.mode = "single"
    THEN IF ~present(req.g1)
         THEN [error |-> "Single garment image is required.", garments |-> <<>>]
         ELSE [error |-> NoValue, garments |-> <<Garment(req.g1Type, req.g1)>>]
    ELSE IF req.mode = "multiple"
    THEN IF ~present(req.g1) /\ ~present(req.g2)
         THEN [error |-> "At least one garment (top or bottom) is required.",
               garments |-> <<>>]
         ELSE LET top == IF present(req.g1) THEN <<Garment(req.g1Type, req.g1)>>
                         ELSE <<>>
                  bottom == IF present(req.g2)
                               /\ ~(Len(top) > 0 /\ top[1].type = "dress")
                            THEN <<Garment("bottom", req.g2)>> ELSE <<>>
              IN  [error |-> NoValue, garments |-> top \o bottom]
    ELSE [error |-> "Invalid garment type. Must be \"single\" or \"multiple\".",
          garments |-> <<>>]

\* validateImage: TRUE, or it throws
validateImage(src) == src # "invalid"

\* the handler without its validateImage block
SubmitError_unvalidated(req) ==
    LET built == BuildGarments(req) IN
    IF ~present(req.model) THEN [code |-> 400, error |-> "Model image is required."]
    ELSE IF built.error # NoValue THEN [code |-> 400, error |-> built.error]
    ELSE [code |-> 200, error |-> NoValue]

\* lines 803-918: the answer the handler gives before it creates a job; code 200
\* when every check passes
SubmitError(req) ==
    LET built == BuildGarments(req) IN
    IF ~present(req.model) THEN [code |-> 400, error |-> "Model image is required."]
    ELSE IF built.error # NoValue THEN [code |-> 400, error |-> built.error]
    ELSE IF ~validateImage(req.model)
            \/ \E i \in DOMAIN built.garments : ~validateImage(built.garments[i].source)
    THEN [code |-> 400, error |-> "Image file too small"]
    ELSE [code |-> 200, error |-> NoValue]

\* the environment the process starts in: whether REPLICATE_API_TOKEN is set and
\* whether `new ReplicateVellaService()` returns; without a token the
\* constructor throws (lines 368-373)
Configs ==
    {c \in [hasToken : BOOLEAN, constructs : BOOLEAN] : c.constructs => c.hasToken}

\* a startup that looks at the token alone
selectService_tokenOnly(hasToken, constructs) ==
    IF hasToken THEN "Replicate" ELSE "Mock"

\* lines 712-720: the service chosen at startup
selectService(hasToken, constructs) ==
    IF hasToken
    THEN IF constructs THEN "Replicate" ELSE "Mock"
    ELSE "Mock"

\* the `results` a job carries: null until the pipeline sets the mapping
NullResults == [set |-> FALSE, slots |-> {}]

\* saveGeneratedImage: the reference `/outputs/${userId}/${filename}`
saveGeneratedImage(filename, userId) == [dir |-> userId, file |-> filename]

Filename(prefix, requestId, i, ext) ==
    [prefix |-> prefix, requestId |-> requestId, i |-> i, ext |-> ext]

Slot(name, n, ref) == [name |-> name, n |-> n, ref |-> ref]

\* lines 920-932: Date.now().toString() and the object stored under it
newRequestId(t, created) == t

\* a job stored only once its pipeline has started
NewJob_started(req, id) ==
    [requestId |-> id,
     status |-> "processing",
     progress |-> 20,
     message |-> "Preparing images for Vella AI...",
     results |-> NullResults,
     error |-> NoValue,
     modelImage |-> getImagePath(req.model),
     garments |-> BuildGarments(req).garments,
     isDefaultModel |-> (getImagePath(req.model) = "defaults"),
     userId |-> req.userId]

NewJob(req, id) ==
    [requestId |-> id,
     status |-> "processing",
     progress |-> 0,
     message |-> "Starting Vella virtual try-on generation...",
     results |-> NullResults,
     error |-> NoValue,
     modelImage |-> getImagePath(req.model),
     garments |-> BuildGarments(req).garments,
     isDefaultModel |-> (getImagePath(req.model) = "defaults"),
     userId |-> req.userId]

\* the input images of a job, by position: 0 is job.modelImage, k is
\* job.garments[k].imagePath
InputsOf(job) == 0..Len(job.garments)

InputPath(job, k) == IF k = 0 THEN job.modelImage ELSE job.garments[k].imagePath

\* the processVellaTryOn call of a job object: where it is suspended, its locals
\* (emptied when the call has returned), and which input images of the job are
\* on disk
NewTask(req) ==
    [pc |-> "scheduled", numOutputs |-> numOutputsOf(req.outputCount),
     vellaResults |-> <<>>, i |-> 0, results |-> {},
     inputs |-> InputsOf(NewJob(req, 0))]

\* no request: the handler slot when no submit handler runs
NoRequest ==
    [userId |-> NoValue, model |-> "none", mode |-> "other", g1 |-> "none",
     g1Type |-> "top", g2 |-> "none", outputCount |-> ClientCount("missing", 0)]

\* the running request handler: where it is (pc), the request of a submit
\* handler and the job object it created
Idle == [pc |-> "idle", obj |-> 0, req |-> NoRequest]

NoResponse ==
    [kind |-> "none", code |-> 0, requestId |-> -1, userId |-> NoValue,
     status |-> NoValue, progress |-> -1, results |-> NullResults, error |-> NoValue]

\* the ids a run can hand out: one millisecond per accepted submit at most
RequestIds == 0..MaxJobs

JobsIdle ==
    /\ now = 0
    /\ config \in Configs
    /\ activeAIService = selectService(config.hasToken, config.constructs)
    /\ files = {}
    /\ heap = <<>>
    /\ generationJobs = [id \in RequestIds |-> 0]
    /\ task = <<>>
    /\ handler = Idle
    /\ response = NoResponse

\* the job object the map holds under id (callers check there is one)
JobAt(id) == heap[generationJobs[id]]
Has(id) == generationJobs[id] # 0

\* time passes between two turns of the event loop; only a millisecond that a
\* submit has read is told from the next
Tick ==
    /\ handler = Idle
    /\ Has(now)
    /\ now < MaxJobs
    /\ now' = now + 1
    /\ UNCHANGED <<config, activeAIService, heap, generationJobs, task, handler, response,
                   files, classifierVars, normalizerVars>>

\* POST /api/generate, lines 785-918: a request the handler answers with an error
SubmitReject(req) ==
    /\ handler = Idle
    /\ SubmitError(req).code # 200
    /\ response' = [NoResponse EXCEPT !.kind = "submit", !.code = SubmitError(req).code,
                                      !.error = SubmitError(req).error]
    /\ handler' = [pc |-> "answered", obj |-> 0, req |-> req]
    /\ UNCHANGED <<now, config, activeAIService, heap, generationJobs, task,
                   files, classifierVars, normalizerVars>>

\* POST /api/generate, lines 785-932: validation passes, the job is stored.
\* The handler runs to its end before any other callback; handler.pc follows it
\* through its statements so that their order can be stated.
SubmitRegister(req) ==
    /\ handler = Idle
    /\ SubmitError(req).code = 200
    /\ LET id == newRequestId(now, Len(heap))
           obj == Len(heap) + 1
       IN  /\ heap' = Append(heap, NewJob(req, id))
           /\ task' = Append(task, NewTask(req))
           /\ generationJobs' = [generationJobs EXCEPT ![id] = obj]
           /\ handler' = [pc |-> "registered", obj |-> obj, req |-> req]
    /\ response' = NoResponse
    /\ UNCHANGED <<now, config, activeAIService, files, classifierVars, normalizerVars>>

\* lines 934-938: res.json({message, requestId, status: 'processing'})
SubmitRespond ==
    /\ handler.pc = "registered"
    /\ response' = [NoResponse EXCEPT !.kind = "submit", !.code = 200,
                                      !.requestId = heap[handler.obj].requestId,
                                      !.userId = heap[handler.obj].userId,
                                      !.status = "processing"]
    /\ handler' = [handler EXCEPT !.pc = "responded"]
    /\ UNCHANGED <<now, config, activeAIService, heap, generationJobs, task,
                   files, classifierVars, normalizerVars>>

\* a registry that holds a copy of the job per id, not the object
SetJob_shared(o, job) ==
    /\ heap' = [p \in DOMAIN heap |->
                    IF heap[p].requestId = heap[o].requestId THEN job ELSE heap[p]]
    /\ generationJobs' = [generationJobs EXCEPT ![heap[o].requestId] = o]

\* generationJobs.set(requestId, job) by the pipeline of object o
SetJob(o, job) ==
    /\ heap' = [heap EXCEPT ![o] = job]
    /\ generationJobs' = [generationJobs EXCEPT ![heap[o].requestId] = o]

\* a pipeline that gives the event loop back once it has set progress 20
PipelineStart_yielding ==
    /\ handler.pc = "responded"
    /\ LET id == heap[handler.obj].requestId
           o == generationJobs[id]
       IN  /\ SetJob(o, [heap[o] EXCEPT !.progress = 20,
                                        !.message = "Preparing images for Vella AI..."])
           /\ task' = [task EXCEPT ![o].pc = "started"]
    /\ handler' = [handler EXCEPT !.pc = "answered"]
    /\ UNCHANGED <<now, config, activeAIService, response, files,
                   classifierVars, normalizerVars>>

\* lines 940-943 and 1042-1049: processVellaTryOn is called, not awaited; it looks
\* the job up under requestId and runs to progress 20
PipelineStart ==
    /\ handler.pc = "responded"
    /\ LET id == heap[handler.obj].requestId
           o == generationJobs[id]
       IN  /\ SetJob(o, [heap[o] EXCEPT !.progress = 20,
                                        !.message = "Preparing images for Vella AI..."])
           /\ task' = [task EXCEPT ![o].pc = "started"]
    /\ handler' = [handler EXCEPT !.pc = "started"]
    /\ UNCHANGED <<now, config, activeAIService, response, files,
                   classifierVars, normalizerVars>>

\* lines 1051-1065: progress 40, the backend call is issued and awaited; the
\* submit handler returns
PipelineInvoke ==
    /\ handler.pc = "started"
    /\ LET o == handler.obj
       IN  /\ SetJob(o, [heap[o] EXCEPT !.progress = 40,
                                        !.message = "Running Vella AI model..."])
           /\ task' = [task EXCEPT ![o].pc = "invoke"]
    /\ handler' = Idle
    /\ response' = NoResponse
    /\ UNCHANGED <<now, config, activeAIService, files, classifierVars, normalizerVars>>

\* MockAIService.virtualTryOn, lines 623-641: numOutputs records carrying a buffer
MockRecord(i) ==
    [imageBuffer |-> "mock", imageUrl |-> "mock://tryon-result", urlIsString |-> TRUE,
     index |-> i, type |-> "tryon_result", mimeType |-> "image/jpeg",
     isStream |-> FALSE, isMock |-> TRUE]

MockVirtualTryOn(numOutputs) == [k \in 1..numOutputs |-> MockRecord(k - 1)]

\* the messages replicate.run or prepareImage reject with, as virtualTryOn
\* rethrows them (lines 433-435)
BackendErrors == {"Virtual try-on failed: Request timed out"}

\* what a canvas call and what fs.writeFileSync throw
CanvasError == "canvas: out of memory"
DiskError == "ENOSPC: no space left on device, write"

WrappedProcessError == "Virtual try-on failed: Failed to process results: stream error"

\* what a backend call of the running service may resolve to: streams with
\* bytes, and streams without
BackendOutputs == RawOutputsOver({"a"}, MaxOutputs)
AllBackendOutputs == RawOutputsFrom(RawItemsOver({"a"}) \cup {EmptyStream}, MaxRaw)

\* a catch that starts the progress over
Fail_resetting(o, msg) ==
    /\ SetJob(o, [heap[o] EXCEPT !.status = "failed", !.error = msg, !.progress = 0])
    /\ task' = [task EXCEPT ![o].pc = "done", ![o].vellaResults = <<>>,
                            ![o].numOutputs = 0, ![o].i = 0, ![o].results = {}]

\* a catch that records no message
Fail_silent(o, msg) ==
    /\ SetJob(o, [heap[o] EXCEPT !.status = "failed"])
    /\ task' = [task EXCEPT ![o].pc = "done", ![o].vellaResults = <<>>,
                            ![o].numOutputs = 0, ![o].i = 0, ![o].results = {}]

\* lines 1133-1138: the catch of processVellaTryOn
Fail(o, msg) ==
    /\ SetJob(o, [heap[o] EXCEPT !.status = "failed", !.error = msg])
    /\ task' = [task EXCEPT ![o].pc = "done", ![o].vellaResults = <<>>,
                            ![o].numOutputs = 0, ![o].i = 0, ![o].results = {}]

\* lines 1067-1069: the backend call resolved with `records`
Proceed(o, records) ==
    /\ SetJob(o, [heap[o] EXCEPT !.progress = 80, !.message = "Processing results..."])
    /\ task' = [task EXCEPT ![o].vellaResults = records,
                            ![o].numOutputs = 0,
                            ![o].pc = IF Len(records) = 0 THEN "post"
                                      ELSE "materialize"]

\* the await of activeAIService.virtualTryOn (line 1058) ends: it resolves
BackendResolves(o, env) ==
    /\ handler = Idle
    /\ o \in DOMAIN task
    /\ task[o].pc = "invoke"
    /\ IF activeAIService = "Mock"
       THEN Proceed(o, MockVirtualTryOn(task[o].numOutputs))
       ELSE \E raw \in env.outputs :
               LET outcome == processReplicateOutput("server", raw) IN
               IF outcome.state = "raised" THEN Fail(o, WrappedProcessError)
               ELSE Proceed(o, outcome.results)
    /\ UNCHANGED <<now, config, activeAIService, handler, response,
                   files, classifierVars, normalizerVars>>

\* the await of activeAIService.virtualTryOn ends: it rejected. The remote
\* service rethrows what replicate.run or prepareImage threw; the mock service
\* throws what createCanvas or toBuffer throws in createProfessionalMockImage
\* (lines 651-652 and 705), which needs a turn of its loop.
BackendRejects(o, env) ==
    /\ handler = Idle
    /\ o \in DOMAIN task
    /\ task[o].pc = "invoke"
    /\ IF activeAIService = "Replicate"
       THEN \E msg \in BackendErrors : Fail(o, msg)
       ELSE /\ task[o].numOutputs > 0
            /\ FALSE \in env.canvas
            /\ Fail(o, CanvasError)
    /\ UNCHANGED <<now, config, activeAIService, handler, response,
                   files, classifierVars, normalizerVars>>

\* results[key] = ref on the local object `results`
Assign(results, name, n, ref) ==
    {s \in results : ~(s.name = name /\ s.n = n)} \cup {Slot(name, n, ref)}

HasSlot(results, name, n) == \E s \in results : s.name = name /\ s.n = n
SlotRef(results, name, n) == (CHOOSE s \in results : s.name = name /\ s.n = n).ref

\* the bytes a canvas is rendered to (createMockImageBuffer, createMockResultImage
\* and the post-processing images)
CanvasBytes == "canvas"

\* what the environment does to one step of a pipeline:
\*   fetch  - how axios.get ends: "ok" (a body), "error" (network failure, timeout
\*            or non-2xx status: it rejects), "emptyBuffer" (a 2xx answer without
\*            body, data is a Buffer of length 0), "noData" (data is falsy)
\*   canvas - whether a canvas call returns (TRUE) or throws
\*   disk   - whether fs.writeFileSync returns (TRUE) or throws
\*   post   - the post-processing call that throws, if any
\*   outputs - what replicate.run resolves to
FetchOutcomes == {"ok", "error", "emptyBuffer", "noData"}

\* fs.writeFileSync(outputPath, imageBuffer)
Write(fs, ref, bytes) == {f \in fs : f.ref # ref} \cup {[ref |-> ref, bytes |-> bytes]}

Stored(fs, ref) == \E f \in fs : f.ref = ref
BytesAt(fs, ref) == (CHOOSE f \in fs : f.ref = ref).bytes

Resolved(buffer) == [rejected |-> FALSE, buffer |-> buffer]
Rejected == [rejected |-> TRUE, buffer |-> NoValue]

\* createMockImageBuffer, lines 588-620: nothing catches what the canvas throws
createMockImageBuffer(canvas) == IF canvas THEN Resolved(CanvasBytes) ELSE Rejected

MockUrls == {"mock://tryon-result-1", "mock://tryon-result"}

\* getImageBuffer, lines 539-576 (ReplicateVellaService) and 643-648
\* (MockAIService): the promise it returns. A Buffer is truthy whatever its
\* length; `return this.createMockImageBuffer()` hands the caller that promise,
\* in the try as in the catch.
getImageBuffer(service, result, fetch, canvas) ==
    IF result.imageBuffer # NoValue THEN Resolved(result.imageBuffer)
    ELSE IF service = "Mock" THEN createMockImageBuffer(canvas)
    ELSE IF ~result.urlIsString THEN createMockImageBuffer(canvas)
    ELSE IF result.imageUrl \in MockUrls THEN createMockImageBuffer(canvas)
    ELSE IF fetch = "ok" THEN Resolved(result.imageUrl)
    ELSE IF fetch = "emptyBuffer" THEN Resolved(EmptyBytes)
    ELSE createMockImageBuffer(canvas)

\* results[`tryonResult${i + 1}`] = saveGeneratedImage(...): the file is written
\* and the slot is set
StoreSlot(o, ref, bytes) ==
    /\ LET i == task[o].i
       IN  task' = [task EXCEPT
                       ![o].results = Assign(task[o].results, "tryonResult", i + 1, ref),
                       ![o].i = i + 1,
                       ![o].pc = IF i + 1 < Len(task[o].vellaResults)
                                 THEN "materialize" ELSE "post"]
    /\ files' = Write(files, ref, bytes)
    /\ UNCHANGED <<heap, generationJobs>>

\* lines 1074-1086: one turn of the loop. The try fetches the bytes and writes
\* them; its catch renders createMockResultImage and writes that, and nothing
\* catches what the catch throws but the catch of processVellaTryOn.
Materialize(o, env) ==
    /\ handler = Idle
    /\ o \in DOMAIN task
    /\ task[o].pc = "materialize"
    /\ \E fetch \in env.fetch, canvas1 \in env.canvas, disk1 \in env.disk,
          canvas2 \in env.canvas, disk2 \in env.disk :
          LET i == task[o].i
              got == getImageBuffer(activeAIService, task[o].vellaResults[i + 1],
                                    fetch, canvas1)
              png == saveGeneratedImage(
                         Filename("vella-result", heap[o].requestId, i, "png"),
                         heap[o].userId)
              jpg == saveGeneratedImage(
                         Filename("vella-result", heap[o].requestId, i, "jpg"),
                         heap[o].userId)
          IN  IF ~got.rejected /\ disk1 THEN StoreSlot(o, png, got.buffer)
              ELSE IF ~canvas2 THEN Fail(o, CanvasError) /\ files' = files
              ELSE IF ~disk2 THEN Fail(o, DiskError) /\ files' = files
              ELSE StoreSlot(o, jpg, CanvasBytes)
    /\ UNCHANGED <<now, config, activeAIService, handler, response,
                   classifierVars, normalizerVars>>

\* lines 1088-1108: the extra images; failAt names the call that throws, if any
PostStages == {"none", "enhanced", "productBack", "modelBack"}

\* no unlinkSync throws
NoInput == -1

\* an environment in which materialization and cleanup meet no failure
Calm == [fetch |-> {"ok"}, canvas |-> {TRUE}, disk |-> {TRUE}, post |-> PostStages,
         outputs |-> BackendOutputs, unlink |-> {NoInput}]

\* every outcome the environment can produce
Faulty == [fetch |-> FetchOutcomes, canvas |-> BOOLEAN, disk |-> BOOLEAN,
           post |-> PostStages, outputs |-> AllBackendOutputs,
           unlink |-> {NoInput, 0, 1}]

\* a post-processing that renders the back view whatever slots there are
PostProcess_rendersBack(results, requestId, userId, failAt) ==
    IF results = {} \/ failAt = "enhanced" THEN results
    ELSE LET r1 == Assign(results, "enhancedProduct", 0,
                          saveGeneratedImage(Filename("enhanced", requestId, 0, "jpg"),
                                             userId))
         IN  IF failAt = "productBack" THEN r1
             ELSE LET r2 == Assign(r1, "productBack", 0,
                                   saveGeneratedImage(
                                       Filename("product-back", requestId, 0, "jpg"),
                                       userId))
                      r3 == IF HasSlot(r2, "tryonResult", 1)
                            THEN Assign(r2, "modelFront", 0, SlotRef(r2, "tryonResult", 1))
                            ELSE r2
                  IN  IF HasSlot(r3, "tryonResult", 1) /\ failAt # "modelBack"
                      THEN Assign(r3, "modelBack", 0,
                                  saveGeneratedImage(
                                      Filename("model-back", requestId, 0, "jpg"), userId))
                      ELSE r3

PostProcess(results, requestId, userId, failAt) ==
    IF results = {} \/ failAt = "enhanced" THEN results
    ELSE LET r1 == Assign(results, "enhancedProduct", 0,
                          saveGeneratedImage(Filename("enhanced", requestId, 0, "jpg"),
                                             userId))
         IN  IF failAt = "productBack" THEN r1
             ELSE LET r2 == Assign(r1, "productBack", 0,
                                   saveGeneratedImage(
                                       Filename("product-back", requestId, 0, "jpg"),
                                       userId))
                      r3 == IF HasSlot(r2, "tryonResult", 1)
                            THEN Assign(r2, "modelFront", 0, SlotRef(r2, "tryonResult", 1))
                            ELSE r2
                  IN  IF HasSlot(r3, "tryonResult", 2)
                      THEN Assign(r3, "modelBack", 0, SlotRef(r3, "tryonResult", 2))
                      ELSE IF HasSlot(r3, "tryonResult", 1) /\ failAt # "modelBack"
                      THEN Assign(r3, "modelBack", 0,
                                  saveGeneratedImage(
                                      Filename("model-back", requestId, 0, "jpg"), userId))
                      ELSE r3

\* the files lines 1088-1108 write on the way
PostFiles(fs, results, requestId, userId, failAt) ==
    IF results = {} \/ failAt = "enhanced" THEN fs
    ELSE LET f1 == Write(fs, saveGeneratedImage(Filename("enhanced", requestId, 0, "jpg"),
                                                userId), CanvasBytes)
         IN  IF failAt = "productBack" THEN f1
             ELSE LET f2 == Write(f1, saveGeneratedImage(
                                          Filename("product-back", requestId, 0, "jpg"),
                                          userId), CanvasBytes)
                  IN  IF ~HasSlot(results, "tryonResult", 2)
                         /\ HasSlot(results, "tryonResult", 1) /\ failAt # "modelBack"
                      THEN Write(f2, saveGeneratedImage(
                                         Filename("model-back", requestId, 0, "jpg"),
                                         userId), CanvasBytes)
                      ELSE f2

\* the input images lines 1120-1127 call unlinkSync for: those on disk that are
\* not under defaults/
Unlinked(job, onDisk) ==
    {k \in onDisk : IF k = 0 THEN ~job.isDefaultModel
                              ELSE InputPath(job, k) # "defaults"}

\* lines 1120-1131: what is on disk after the cleanup; the unlinkSync of input
\* `throws` throws, which ends the cleanup, and the error is ignored
Cleanup(job, onDisk, throws) ==
    onDisk \ {k \in Unlinked(job, onDisk) :
                 ~(throws \in Unlinked(job, onDisk) /\ throws <= k)}

\* lines 1088-1131: post-processing, then the job is completed and its
\* uploads are removed
Complete(o, env) ==
    /\ handler = Idle
    /\ o \in DOMAIN task
    /\ task[o].pc = "post"
    /\ \E failAt \in env.post, throws \in env.unlink :
          LET final == PostProcess(task[o].results, heap[o].requestId,
                                   heap[o].userId, failAt)
          IN  /\ SetJob(o, [heap[o] EXCEPT
                               !.results = [set |-> TRUE, slots |-> final],
                               !.status = "completed",
                               !.progress = 100,
                               !.message = "Vella virtual try-on completed successfully"])
              /\ files' = PostFiles(files, task[o].results, heap[o].requestId,
                                    heap[o].userId, failAt)
              /\ task' = [task EXCEPT
                              ![o].pc = "done", ![o].vellaResults = <<>>,
                              ![o].numOutputs = 0, ![o].i = 0, ![o].results = {},
                              ![o].inputs = Cleanup(heap[o], task[o].inputs, throws)]
    /\ UNCHANGED <<now, config, activeAIService, handler, response,
                   classifierVars, normalizerVars>>

\* the await of activeAIService.virtualTryOn never ends: replicate.run does not
\* settle, or a stream read by streamToBuffer emits neither 'end' nor 'error'
BackendHangs(o) ==
    /\ handler = Idle
    /\ o \in DOMAIN task
    /\ task[o].pc = "invoke"
    /\ activeAIService = "Replicate"
    /\ task' = [task EXCEPT ![o].pc = "hung"]
    /\ UNCHANGED <<now, config, activeAIService, heap, generationJobs, handler,
                   response, files, classifierVars, normalizerVars>>

\* the handler without its ownership check
StatusResponse_anyUser(jobs, objects, id, userId) ==
    LET base == [kind |-> "status", code |-> 0, requestId |-> id, userId |-> userId,
                 status |-> NoValue, progress |-> -1,
                 results |-> [set |-> FALSE, slots |-> {}], error |-> NoValue]
    IN  IF jobs[id] = 0 THEN [base EXCEPT !.code = 404, !.error = "Job not found"]
        ELSE LET job == objects[jobs[id]] IN
             IF job.status = "failed"
             THEN [base EXCEPT !.code = 500, !.status = "failed", !.error = job.error]
             ELSE IF job.status = "completed"
             THEN [base EXCEPT !.code = 200, !.status = "completed", !.progress = 100,
                               !.results = job.results]
             ELSE [base EXCEPT !.code = 200, !.status = "processing",
                               !.progress = job.progress]

\* GET /api/status/:requestId, lines 951-985: what the handler answers
StatusResponse(jobs, objects, id, userId) ==
    LET base == [NoResponse EXCEPT !.kind = "status", !.requestId = id,
                                   !.userId = userId]
    IN  IF jobs[id] = 0 THEN [base EXCEPT !.code = 404, !.error = "Job not found"]
        ELSE LET job == objects[jobs[id]] IN
             IF job.userId # userId
             THEN [base EXCEPT !.code = 403, !.error = "Access denied"]
             ELSE IF job.status = "failed"
             THEN [base EXCEPT !.code = 500, !.status = "failed", !.error = job.error]
             ELSE IF job.status = "completed"
             THEN [base EXCEPT !.code = 200, !.status = "completed", !.progress = 100,
                               !.results = job.results]
             ELSE [base EXCEPT !.code = 200, !.status = "processing",
                               !.progress = job.progress]

\* a status handler that drops a failed job once it has reported it
GetStatus_evicting(id, userId) ==
    /\ handler = [pc |-> "idle", obj |-> 0, req |-> NoRequest]
    /\ response' = StatusResponse(generationJobs, heap, id, userId)
    /\ handler' = [pc |-> "answered", obj |-> 0, req |-> NoRequest]
    /\ generationJobs' = IF response'.status = "failed"
                         THEN [generationJobs EXCEPT ![id] = 0]
                         ELSE generationJobs
    /\ UNCHANGED <<now, config, activeAIService, heap, task, files,
                   classifierVars, normalizerVars>>

GetStatus(id, userId) ==
    /\ handler = Idle
    /\ response' = StatusResponse(generationJobs, heap, id, userId)
    /\ handler' = [pc |-> "answered", obj |-> 0, req |-> NoRequest]
    /\ UNCHANGED <<now, config, activeAIService, heap, generationJobs, task,
                   files, classifierVars, normalizerVars>>

\* a handler that has answered returns; the event loop takes the next callback
HandlerReturn ==
    /\ handler.pc = "answered"
    /\ handler' = Idle
    /\ response' = NoResponse
    /\ UNCHANGED <<now, config, activeAIService, heap, generationJobs, task,
                   files, classifierVars, normalizerVars>>

-----------------------------------------------------------------------------
(* Specifications *)

Init == JobsIdle /\ ClassifierIdle /\ NormalizerIdle

\* the callbacks the event loop may run next, with at most `cap` accepted submits
\* and an environment that does what `env` allows
Step(cap, env) ==
    \/ Tick
    \/ \E req \in Requests : SubmitReject(req)
    \/ \E req \in Requests : Len(heap) < cap /\ SubmitRegister(req)
    \/ SubmitRespond
    \/ PipelineStart
    \/ PipelineInvoke
    \/ \E o \in DOMAIN heap : BackendResolves(o, env)
    \/ \E o \in DOMAIN heap : BackendRejects(o, env)
    \/ \E o \in DOMAIN heap : Materialize(o, env)
    \/ \E o \in DOMAIN heap : Complete(o, env)
    \/ \E id \in 0..now, u \in Users : GetStatus(id, u)
    \/ HandlerReturn

Next == Step(MaxJobs, Calm)

Spec == Init /\ [][Next]_vars

\* the same server with fewer accepted submits
NextHandlers == Step(MaxAccepted, Calm)

SpecHandlers == Init /\ [][NextHandlers]_vars

\* the first accepted submit and its pipeline, in every environment, with the
\* status reads of both users
NextPipeline ==
    \/ Tick
    \/ \E req \in PipelineRequests : heap = <<>> /\ SubmitRegister(req)
    \/ SubmitRespond
    \/ PipelineStart
    \/ PipelineInvoke
    \/ \E o \in DOMAIN heap : BackendResolves(o, Faulty)
    \/ \E o \in DOMAIN heap : BackendRejects(o, Faulty)
    \/ \E o \in DOMAIN heap : Materialize(o, Faulty)
    \/ \E o \in DOMAIN heap : Complete(o, Faulty)
    \/ \E id \in 0..now, u \in Users : GetStatus(id, u)
    \/ HandlerReturn

SpecPipeline == Init /\ [][NextPipeline]_vars

\* an environment in which the remote backend resolves to one stream and no
\* step past the backend call fails
Plain == [fetch |-> {"ok"}, canvas |-> {TRUE}, disk |-> {TRUE}, post |-> {"none"},
          outputs |-> {[isArray |-> TRUE,
                        items |-> <<Item("stream", "a", FALSE, FALSE)>>]},
          unlink |-> {NoInput}]

\* the accepted submits of Spec and their pipelines, without the status reads
NextJobs ==
    \/ Tick
    \/ \E req \in RequestsWith({ClientCount("number", 1)}) :
           Len(heap) < MaxJobs /\ SubmitRegister(req)
    \/ SubmitRespond
    \/ PipelineStart
    \/ PipelineInvoke
    \/ \E o \in DOMAIN heap : BackendResolves(o, Plain)
    \/ \E o \in DOMAIN heap : BackendRejects(o, Plain)
    \/ \E o \in DOMAIN heap : Materialize(o, Plain)
    \/ \E o \in DOMAIN heap : Complete(o, Plain)

SpecJobs == Init /\ [][NextJobs]_vars

\* the submit handler alone, given every request, up to its first accepted one
NextSubmit ==
    \/ \E req \in SubmitRequests : heap = <<>> /\ SubmitReject(req)
    \/ \E req \in SubmitRequests : heap = <<>> /\ SubmitRegister(req)
    \/ SubmitRespond
    \/ PipelineStart
    \/ PipelineInvoke
    \/ HandlerReturn

SpecSubmit == Init /\ [][NextSubmit]_vars

\* the same, with a backend call that may never settle. The event loop runs
\* every callback that is ready: a handler runs to its end, and a pipeline whose
\* await has ended is resumed.
NextLive ==
    \/ NextPipeline
    \/ \E o \in DOMAIN heap : BackendHangs(o)

Fairness ==
    /\ WF_vars(SubmitRespond)
    /\ WF_vars(PipelineStart)
    /\ WF_vars(PipelineInvoke)
    /\ WF_vars(HandlerReturn)
    /\ SF_vars(\E o \in DOMAIN heap :
                   BackendResolves(o, Faulty) \/ BackendRejects(o, Faulty)
                       \/ BackendHangs(o))
    /\ SF_vars(\E o \in DOMAIN heap : Materialize(o, Faulty))
    /\ SF_vars(\E o \in DOMAIN heap : Complete(o, Faulty))

SpecLive == Init /\ [][NextLive]_vars /\ Fairness

\* the classifier applied to every garment list up to MaxGarments
InitClassifier == /\ JobsIdle /\ NormalizerIdle
                  /\ garments \in GarmentLists
                  /\ category = "pending"
                  /\ input = {}

SpecClassifier == InitClassifier /\ [][Classify]_vars

\* each copy of the normalizer applied to every raw output up to MaxItems
InitNormalizer == /\ JobsIdle /\ ClassifierIdle
                  /\ rawOutput \in RawOutputs
                  /\ variant \in Variants
                  /\ normalized = Pending

SpecNormalizer == InitNormalizer /\ [][Normalize]_vars

-----------------------------------------------------------------------------
(* Properties of the job registry and the request handlers *)

Terminal == {"completed", "failed"}
Checkpoints == {0, 20, 40, 80, 100}

\* C1: for every job id, once the status stored in the registry under that id is
\* completed or failed, no later step changes the status seen under that id.
C1_TerminalStatusIsFinal ==
    [][\A id \in RequestIds :
          (Has(id) /\ JobAt(id).status \in Terminal)
              => (generationJobs'[id] # 0
                  /\ heap'[generationJobs'[id]].status = JobAt(id).status)]_vars

\* C2: for every job id, the progress values stored under that id never decrease
\* and are among 0, 20, 40, 80, 100, and a completed job has progress 100.
C2_ProgressMonotonic ==
    [][\A id \in RequestIds :
          Has(id) =>
              /\ generationJobs'[id] # 0
              /\ heap'[generationJobs'[id]].progress >= JobAt(id).progress
              /\ heap'[generationJobs'[id]].progress \in Checkpoints
              /\ (heap'[generationJobs'[id]].status = "completed"
                      => heap'[generationJobs'[id]].progress = 100)]_vars

\* C3: any two accepted submit calls are given distinct job ids, so neither job's
\* registry entry replaces the other's.
C3_DistinctJobIds ==
    \A o1, o2 \in DOMAIN heap :
        o1 # o2 => heap[o1].requestId # heap[o2].requestId

\* C4: getStatus answers NotFound when no job is registered under the id,
\* Forbidden when the job's recorded owner is another user, and a snapshot of the
\* job only to its owner; a non-owner is given no field of a job.
C4_StatusAccess ==
    (handler.pc = "answered" /\ response.kind = "status") =>
        LET id == response.requestId
            u == response.userId
            bare == /\ response.status = NoValue
                    /\ response.progress = -1
                    /\ response.results = NullResults
        IN  /\ ~Has(id) => (response.code = 404 /\ bare
                            /\ response.error = "Job not found")
            /\ (Has(id) /\ JobAt(id).userId # u)
                   => (response.code = 403 /\ bare /\ response.error = "Access denied")
            /\ (Has(id) /\ JobAt(id).userId = u)
                   => /\ response.code \in {200, 500}
                      /\ response.status = JobAt(id).status
                      /\ (JobAt(id).status = "failed"
                              => response.error = JobAt(id).error)
                      /\ (JobAt(id).status = "completed"
                              => response.results = JobAt(id).results)
                      /\ (JobAt(id).status = "processing"
                              => response.progress = JobAt(id).progress)

\* a status read of another user's job has been answered
C4_ForbiddenRead ==
    /\ handler.pc = "answered"
    /\ response.kind = "status"
    /\ response.code = 403
    /\ Has(response.requestId)
    /\ JobAt(response.requestId).status = "completed"

\* the step of a status handler: it starts on an idle event loop and answers
StatusRead ==
    /\ handler.pc = "idle"
    /\ handler'.pc = "answered"
    /\ response'.kind = "status"

\* C5: a status read leaves the registry and every job field unchanged, whatever
\* it answers, and the same read issued again right after it is answered the same
\* (for a failed job: the same error message).
C5_StatusReadIsPure ==
    [][StatusRead =>
          /\ heap' = heap
          /\ generationJobs' = generationJobs
          /\ task' = task
          /\ now' = now
          /\ activeAIService' = activeAIService
          /\ StatusResponse(generationJobs', heap', response'.requestId,
                            response'.userId) = response']_vars

\* the owner has read a failed job and was given its error message
C5_FailedJobRead ==
    /\ handler.pc = "answered"
    /\ response.kind = "status"
    /\ response.status = "failed"
    /\ response.error \in BackendErrors \cup {WrappedProcessError}

\* what the claim lists: no model image, no garment reference, an unknown garment
\* mode, or an image the handler validates that fails validation
NoModel(req) == req.model = "none"
UnknownMode(req) == req.mode \notin {"single", "multiple"}
NoGarment(req) ==
    \/ req.mode = "single" /\ req.g1 = "none"
    \/ req.mode = "multiple" /\ req.g1 = "none" /\ req.g2 = "none"
FailsValidation(req) ==
    \/ req.model = "invalid"
    \/ req.mode \in {"single", "multiple"} /\ req.g1 = "invalid"
    \/ req.mode = "multiple" /\ req.g2 = "invalid"
          /\ ~(req.g1 # "none" /\ req.g1Type = "dress")
Defective(req) ==
    NoModel(req) \/ UnknownMode(req) \/ NoGarment(req) \/ FailsValidation(req)

\* C6: a submit call with no model image, no garment, an unknown garment mode or
\* an image that fails validation is answered with an error in the same turn and
\* leaves the registry unchanged: no job object is created, no pipeline started.
C6_RejectedSubmitCreatesNothing ==
    [][(handler.pc = "idle" /\ handler'.req # NoRequest /\ Defective(handler'.req))
          => /\ handler'.pc = "answered"
             /\ response'.kind = "submit"
             /\ response'.code = 400
             /\ response'.requestId = -1
             /\ heap' = heap
             /\ generationJobs' = generationJobs
             /\ task' = task]_vars

\* a request with an invalid image was rejected while jobs were registered and
\* running
C6_RejectedWhileJobsRun ==
    /\ handler.pc = "answered"
    /\ response.kind = "submit"
    /\ response.code = 400
    /\ FailsValidation(handler.req)
    /\ ~NoModel(handler.req) /\ ~NoGarment(handler.req) /\ ~UnknownMode(handler.req)
    /\ \E o \in DOMAIN heap : heap[o].status = "processing"

\* C7: an accepted submit stores the job with status processing and progress 0
\* before it answers with the job id and before the pipeline runs its first
\* step; it returns while the job is still processing, and at that moment
\* getStatus by the owner finds the job.
C7_RegisteredBeforeAnswerAndStart ==
    [][/\ handler'.pc \in {"registered", "responded"}
          => LET o == handler'.obj
                 id == heap'[o].requestId
             IN  /\ generationJobs'[id] = o
                 /\ heap'[o].status = "processing"
                 /\ heap'[o].progress = 0
                 /\ heap'[o].userId = handler'.req.userId
                 /\ task'[o].pc = "scheduled"
                 /\ (handler'.pc = "responded"
                        => /\ response'.code = 200
                           /\ response'.requestId = id)
                 /\ (handler'.pc = "registered" => response' = NoResponse)
       /\ (response'.kind = "submit" /\ response'.code = 200)
              => handler'.pc \in {"responded", "started"}
       /\ (handler.pc = "started" /\ handler'.pc = "idle")
          => LET o == handler.obj
                 id == heap[o].requestId
                 seen == StatusResponse(generationJobs', heap', id, handler.req.userId)
             IN  /\ heap'[o].status = "processing"
                 /\ task'[o].pc = "invoke"
                 /\ seen.code = 200
                 /\ seen.status = "processing"]_vars

\* the submit handler has answered with the job id; the pipeline has not started
C7_AnsweredBeforePipeline ==
    /\ handler.pc = "responded"
    /\ response.code = 200
    /\ task[handler.obj].pc = "scheduled"
    /\ heap[handler.obj].progress = 0

-----------------------------------------------------------------------------
(* Properties of the pipeline *)

\* the messages a job fails with when the backend call or the normalizer raised
InvocationErrors == BackendErrors \cup {WrappedProcessError, CanvasError}

\* C11: a job becomes failed only when backend invocation or normalization
\* raised; no failure inside the materialization of a record (the fetch, the
\* fallback image, the write of the bytes) sets the job to failed.
C11_FailedOnlyByBackend ==
    [][\A o \in DOMAIN heap :
          (heap[o].status # "failed" /\ heap'[o].status = "failed")
              => /\ task[o].pc = "invoke"
                 /\ heap'[o].error \in InvocationErrors]_vars

\* C12: the buffer stored for a slot is never empty: every file under outputs/
\* holds bytes, and every slot of a completed job refers to such a file.
C12_StoredBuffersNonEmpty ==
    /\ \A f \in files : f.bytes # EmptyBytes
    /\ \A o \in DOMAIN heap :
           heap[o].status = "completed" =>
               \A sl \in heap[o].results.slots :
                   Stored(files, sl.ref) /\ BytesAt(files, sl.ref) # EmptyBytes

C14_BackendFixedAtStartup ==
    [][/\ activeAIService = "Replicate" <=> (config.hasToken /\ config.constructs)
       /\ activeAIService = "Mock" <=> ~(config.hasToken /\ config.constructs)
       /\ activeAIService' = activeAIService
       /\ config' = config
       /\ \A o \in DOMAIN heap :
             /\ (task[o].pc = "invoke" /\ heap'[o].status = "failed")
                   => task'[o].pc = "done"
             /\ heap[o].status = "failed"
                   => (heap'[o].status = "failed" /\ task'[o] = task[o])
             /\ activeAIService = "Replicate"
                   => \A k \in DOMAIN task'[o].vellaResults :
                          task'[o].vellaResults[k].imageBuffer # "mock"
       /\ activeAIService = "Replicate" => \A f \in files' : f.bytes # "mock"]_vars

\* a remote call has failed on a server started with a token
C14_RemoteJobFailed ==
    /\ config.hasToken
    /\ activeAIService = "Replicate"
    /\ \E o \in DOMAIN heap : /\ heap[o].status = "failed"
                              /\ heap[o].error \in BackendErrors
                              /\ task[o].pc = "done"

\* C15: every job has an error message iff it is failed and a result mapping iff
\* it is completed; the snapshot its owner reads carries results only for a
\* completed job and an error only for a failed one.
C15_ErrorIffFailedResultsIffCompleted ==
    \A o \in DOMAIN heap :
        /\ heap[o].error # NoValue <=> heap[o].status = "failed"
        /\ heap[o].results.set <=> heap[o].status = "completed"
        /\ generationJobs[heap[o].requestId] = o =>
               LET seen == StatusResponse(generationJobs, heap, heap[o].requestId,
                                          heap[o].userId)
               IN  /\ seen.results.set <=> heap[o].status = "completed"
                   /\ seen.error # NoValue <=> heap[o].status = "failed"
                   /\ seen.results.set => seen.results = heap[o].results
                   /\ seen.error # NoValue => seen.error = heap[o].error

\* a job failed while it materialized a record, and its owner reads it
C15_FailedInMaterialization ==
    /\ handler.pc = "answered"
    /\ response.kind = "status"
    /\ response.code = 500
    /\ response.error = DiskError
    /\ \E o \in DOMAIN heap : /\ heap[o].status = "failed"
                              /\ heap[o].progress = 80
                              /\ ~heap[o].results.set

\* C16: for every job id, the result mapping read under that id only gains
\* entries: a slot that maps to a reference keeps it in every later state, and
\* the bytes stored at a reference are not rewritten.
C16_ResultsOnlyGrow ==
    [][/\ \A id \in RequestIds :
             (Has(id) /\ JobAt(id).results.set)
                 => /\ generationJobs'[id] # 0
                    /\ heap'[generationJobs'[id]].results.set
                    /\ JobAt(id).results.slots
                           \subseteq heap'[generationJobs'[id]].results.slots
       /\ \A f \in files : f \in files']_vars

\* C17: every job that was registered eventually reaches completed or failed,
\* whether or not the backend call and the output streams respond.
C17_EveryJobTerminates ==
    (heap # <<>>) ~> (\A o \in DOMAIN heap : heap[o].status \in Terminal)

\* C22: whenever a job's progress is 80, every result record of the job has been
\* materialized and persisted; whenever it is 100, post-processing has finished.
C22_CheckpointsFollowStages ==
    \A o \in DOMAIN heap :
        /\ heap[o].progress = 80 => task[o].pc \in {"post", "done"}
        /\ heap[o].progress = 100 => (task[o].pc = "done" /\ heap[o].status = "completed")

\* the try-on slots of a result object
TryOnSlots(results) == {r \in results : r.name = "tryonResult"}

\* C23: on the mock backend the call always resolves, with as many records as
\* the output count of the request, at least one, carrying the indices
\* 0..count-1; a job completed on it has at least one try-on slot.
C23_MockReturnsRequestedCount ==
    [][activeAIService = "Mock" =>
          \A o \in DOMAIN task :
              /\ (task[o].pc = "invoke" /\ task'[o].pc # "invoke") =>
                     /\ heap'[o].status # "failed"
                     /\ Len(task'[o].vellaResults) = task[o].numOutputs
                     /\ Len(task'[o].vellaResults) >= 1
                     /\ \A k \in DOMAIN task'[o].vellaResults :
                            task'[o].vellaResults[k].index = k - 1
              /\ (heap[o].status # "completed" /\ heap'[o].status = "completed") =>
                     TryOnSlots(heap'[o].results.slots) # {}]_vars

\* C24: once a job is completed or failed, every uploaded image of the job
\* (model and garments) has been deleted, and every default asset of every job
\* is on disk.
C24_UploadsDeletedWhenTerminal ==
    \A o \in DOMAIN heap :
        /\ heap[o].status \in Terminal =>
               \A k \in task[o].inputs : InputPath(heap[o], k) = "defaults"
        /\ \A k \in InputsOf(heap[o]) :
               InputPath(heap[o], k) = "defaults" => k \in task[o].inputs

\* C30: every job created through submit has one or two garments; the second of
\* two has type bottom and the first of two is no dress; so no job has a dress
\* and a bottom, and the classifier never answers top_outer for a job.
C30_JobGarments ==
    \A o \in DOMAIN heap :
        LET gs == heap[o].garments IN
        /\ Len(gs) \in {1, 2}
        /\ Len(gs) = 2 => (gs[2].type = "bottom" /\ gs[1].type # "dress")
        /\ ~(some(gs, "dress") /\ some(gs, "bottom"))
        /\ determineGarmentType(gs) # "top_outer"

\* a job of an outer garment and a bottom, and its pipeline has started
C30_OuterAndBottomJob ==
    \E o \in DOMAIN heap :
        /\ Len(heap[o].garments) = 2
        /\ heap[o].garments[1].type = "outer"
        /\ heap[o].garments[2].type = "bottom"
        /\ task[o].pc = "invoke"

\* C25: a result record is persisted under the path and slot name given by its
\* own slot index: the record with index k is stored as slot k under a file
\* named with k, whatever its position in the list.
C25_StoredUnderOwnIndex ==
    [][\A o \in DOMAIN task :
          (task[o].pc = "materialize" /\ task'[o].i = task[o].i + 1) =>
              LET k == task[o].vellaResults[task[o].i + 1].index IN
              \E r \in TryOnSlots(task'[o].results) \ TryOnSlots(task[o].results) :
                  /\ r.n = k + 1
                  /\ r.ref.file.i = k
                  /\ r.ref.file.requestId = heap[o].requestId
                  /\ r.ref.dir = heap[o].userId]_vars

\* C29: a failure at any point of post-processing does not fail the job and
\* changes no try-on slot: the job is completed with every try-on slot of
\* materialization; modelFront, when present, is tryonResult1, and modelBack,
\* when present, is tryonResult2 whenever tryonResult2 exists.
C29_PostProcessingKeepsSlots ==
    [][\A o \in DOMAIN task :
          (task[o].pc = "post" /\ task'[o].pc # "post") =>
              LET final == heap'[o].results.slots IN
              /\ heap'[o].status = "completed"
              /\ heap'[o].results.set
              /\ TryOnSlots(final) = TryOnSlots(task[o].results)
              /\ task[o].results \subseteq final
              /\ HasSlot(final, "modelFront", 0) =>
                     /\ HasSlot(final, "tryonResult", 1)
                     /\ SlotRef(final, "modelFront", 0) = SlotRef(final, "tryonResult", 1)
              /\ (HasSlot(final, "modelBack", 0) /\ HasSlot(final, "tryonResult", 2)) =>
                     SlotRef(final, "modelBack", 0) = SlotRef(final, "tryonResult", 2)
              /\ HasSlot(final, "productBack", 0) => HasSlot(final, "enhancedProduct", 0)
              /\ HasSlot(final, "modelBack", 0) => HasSlot(final, "productBack", 0)]_vars

\* a job completed with two try-on slots whose post-processing failed at the
\* product back
C29_CompletedAfterPostFailure ==
    \E o \in DOMAIN heap :
        /\ heap[o].status = "completed"
        /\ HasSlot(heap[o].results.slots, "tryonResult", 1)
        /\ HasSlot(heap[o].results.slots, "tryonResult", 2)
        /\ HasSlot(heap[o].results.slots, "enhancedProduct", 0)
        /\ ~HasSlot(heap[o].results.slots, "productBack", 0)
        /\ ~HasSlot(heap[o].results.slots, "modelBack", 0)

\* C26: a pipeline step of one job leaves that job's owner, garment list and
\* model image as set at submission, and leaves every other job object, every
\* other pipeline and the registry entry of every other id unchanged.
C26_PipelineStepFrame ==
    [][\A o \in DOMAIN heap :
          task'[o] # task[o] =>
              /\ Len(heap') = Len(heap)
              /\ heap'[o].userId = heap[o].userId
              /\ heap'[o].garments = heap[o].garments
              /\ heap'[o].modelImage = heap[o].modelImage
              /\ heap'[o].isDefaultModel = heap[o].isDefaultModel
              /\ heap'[o].requestId = heap[o].requestId
              /\ \A q \in DOMAIN heap :
                     q # o => (heap'[q] = heap[q] /\ task'[q] = task[q])
              /\ \A id \in RequestIds :
                     id # heap[o].requestId => generationJobs'[id] = generationJobs[id]]_vars

\* two jobs registered under one id, one completed while the other still runs
C26_TwoJobsOneId ==
    \E o, q \in DOMAIN heap :
        /\ o # q
        /\ heap[o].requestId = heap[q].requestId
        /\ heap[o].status = "completed"
        /\ heap[q].status = "processing"
        /\ heap[q].progress = 80

\* C27: no status read observes progress 0 or 20; the progress values a reader
\* is answered with are 40, 80 and 100.
C27_ReaderSeesFrom40 ==
    (handler.pc = "answered" /\ response.kind = "status" /\ response.code = 200)
        => /\ response.progress \in {40, 80, 100}
           /\ \A o \in DOMAIN heap : heap[o].progress \in {40, 80, 100}

\* the owner has read a job whose backend call is awaited
C27_ReadWhileInvoking ==
    /\ handler.pc = "answered"
    /\ response.kind = "status"
    /\ response.status = "processing"
    /\ response.progress = 40
    /\ \E o \in DOMAIN heap : task[o].pc = "invoke"

\* C28: a registered id is never removed from the registry and the owner recorded
\* under it never changes, so the owner's status reads are never answered
\* NotFound or Forbidden.
C28_IdKeepsItsOwner ==
    [][\A id \in RequestIds :
          Has(id) =>
              /\ generationJobs'[id] # 0
              /\ heap'[generationJobs'[id]].userId = JobAt(id).userId
              /\ StatusResponse(generationJobs', heap', id, JobAt(id).userId).code
                     \notin {403, 404}]_vars

-----------------------------------------------------------------------------
(* Properties of the classifier and of the normalizer *)

TypesOf(gs) == {gs[i].type : i \in DOMAIN gs}

RECURSIVE Reversed(_)
Reversed(q) == IF q = <<>> THEN <<>> ELSE Append(Reversed(Tail(q)), Head(q))

\* C8: classify depends only on the set of garment types present and follows the
\* precedence dress, top+bottom, top+outer, then {top} -> top, {bottom} -> bottom,
\* {outer} -> outer, {} -> top; it always returns a category.
C8_ClassifyPrecedence ==
    category # "pending" =>
        LET S == TypesOf(garments) \cap GarmentTypes
        IN  /\ category \in Categories
            /\ category = determineGarmentType(Reversed(garments))
            /\ \A other \in GarmentLists :
                   TypesOf(other) = TypesOf(garments)
                       => determineGarmentType(other) = category
            /\ ("dress" \in S) => category = "dress"
            /\ ("dress" \notin S /\ {"top", "bottom"} \subseteq S)
                   => category = "top_bottom"
            /\ ("dress" \notin S /\ "bottom" \notin S /\ {"top", "outer"} \subseteq S)
                   => category = "top_outer"
            /\ S = {"top"} => category = "top"
            /\ S = {"bottom"} => category = "bottom"
            /\ S = {"outer"} => category = "outer"
            /\ S = {} => category = "top"

\* a list with a duplicate and all of top, bottom, outer has been classified
C8_ClassifiedMixedList ==
    /\ category = "top_bottom"
    /\ Len(garments) = MaxGarments
    /\ garments[1].type = "outer"
    /\ garments[2].type = "bottom"
    /\ garments[MaxGarments].type = "top"

\* the normalizer reads a byte stream that errors: a stream item of a list, or,
\* in the copy of server.js, a stream given alone
ReadsFailingStream ==
    \E i \in DOMAIN rawOutput.items :
        /\ rawOutput.items[i].shape = "stream"
        /\ rawOutput.items[i].fails
        /\ (rawOutput.isArray \/ variant = "server")

Skipped(item) ==
    \/ item.shape \in {"object", "value"}
    \/ item.shape = "resolver" /\ item.fails

\* C10: when no raw item yields a record, normalize returns exactly one record,
\* marked mock, at slot index 0; the list it returns is never empty.
C10_MockWhenNothingYields ==
    normalized.state = "returned" =>
        /\ Len(normalized.results) >= 1
        /\ (\A i \in DOMAIN rawOutput.items : Skipped(rawOutput.items[i]))
               => /\ Len(normalized.results) = 1
                  /\ normalized.results[1].isMock
                  /\ normalized.results[1].index = 0

\* a list of MaxItems items, all skipped, has been normalized
C10_AllItemsSkipped ==
    /\ normalized.state = "returned"
    /\ rawOutput.isArray
    /\ Len(rawOutput.items) = MaxItems
    /\ \A i \in DOMAIN rawOutput.items : Skipped(rawOutput.items[i])
    /\ rawOutput.items[1].shape = "resolver"
    /\ normalized.results[1].isMock

\* C18: classify returns bottom exactly when bottom is the only garment type
\* present, and outer exactly when outer is the only garment type present.
C18_BottomAndOuterOnlyAlone ==
    category # "pending" =>
        LET S == TypesOf(garments) \cap GarmentTypes
        IN  /\ category = "bottom" <=> S = {"bottom"}
            /\ category = "outer" <=> S = {"outer"}

\* C19: after the attachment loop the input holds the image of every supplied
\* garment, under the parameter of its own type when the type is a known one.
C19_EveryGarmentAttached ==
    category # "pending" =>
        \A i \in DOMAIN garments :
            \E e \in input :
                /\ e.image = i
                /\ garments[i].type \in GarmentTypes
                       => e.param = getGarmentParameter(garments[i].type)

\* what the mapping rules give for one item at 0-based index i; resolved: whether
\* a resolver's record holds a string
RuleRecords(item, i, resolved) ==
    IF item.shape = "stream" THEN <<StreamRecord(item.val, i)>>
    ELSE IF item.shape = "string" THEN <<UrlRecord(item.val, TRUE, i)>>
    ELSE IF item.shape = "resolver" /\ ~item.fails
    THEN <<UrlRecord(item.val, resolved, i)>>
    ELSE IF item.shape = "static" THEN <<UrlRecord(item.val, TRUE, i)>>
    ELSE <<>>

\* the records of a list result that come from the item at index i
RecordsAt(results, i) == SelectSeq(results, LAMBDA r : r.index = i /\ ~r.isMock)

Recognized == {"stream", "string", "resolver", "static"}

\* C21: for a single raw item x of a recognized shape, normalize(x) returns what
\* normalize([x]) returns.
C21_SingleItemAsList ==
    (normalized.state # "pending" /\ ~rawOutput.isArray
         /\ rawOutput.items[1].shape \in Recognized)
        => normalized = processReplicateOutput(
                            variant, [isArray |-> TRUE, items |-> rawOutput.items])

====
